---- MODULE Spec2Model ----
(***************************************************************************)
(* Model of the LilyPond conversion pipeline (convert_lilypond in app.py,  *)
(* duplicated as convert_lilypond_to_pdf_midi in utils/file_converter.py). *)
(* Each call runs on its own Streamlit script thread, so the calls are     *)
(* processes with a program counter; a step is one statement that touches  *)
(* the filesystem.  The filesystem is a map from path strings to file      *)
(* contents.  The external tool is an opaque collaborator: its exit        *)
(* status, stderr text and the files it leaves are chosen                  *)
(* nondeterministically; the bytes of a produced file depend on the source.*)
(***************************************************************************)
EXTENDS Naturals, Sequences, FiniteSets, TLC

VARIABLES
    call,     \* call[c]: the frame of convert_lilypond running on thread c
    fs,       \* fs[path]: bytes of the file at path, or Absent
    dirs,     \* the directories that exist (scratch directories, cache dir)
    ncalls,   \* number of calls started so far
    last_ok,  \* last_ok[n]: PDF bytes returned by the latest successful call named n
    loc,      \* the executable lookups made by the script runs of one server process
    ui        \* one browser session: st.session_state, widget states, last rendering

vars == <<call, fs, dirs, ncalls, last_ok, loc, ui>>

(* What convert_lilypond never touches. *)
others == <<loc, ui>>

-----------------------------------------------------------------------------
(* Bounds and value sets *)

MaxCalls == 2    \* calls started in one run

Calls == {"t1", "t2"}
Sources == {"c'4", "d'4"}
Names == {"my_sheet_music", "output"}
Stderrs == {"", "score.ly:1:1: error: syntax error"}

None == "None"
Absent == "<absent>"

(* os.path.join *)
Join(dir, name) == dir \o "/" \o name

(* tempfile.gettempdir() and the names mkdtemp can pick under it *)
TempRoot == "/tmp"
TempDirs == {Join(TempRoot, "tmp_a"), Join(TempRoot, "tmp_b")}
cache_dir == Join(TempRoot, "streamlit_lilypond_cache")

pdf_name(output_name) == output_name \o ".pdf"
midi_name(output_name) == output_name \o ".midi"

temp_ly_path(temp_dir) == Join(temp_dir, "score.ly")
temp_pdf_path(temp_dir) == Join(temp_dir, "score.pdf")
temp_midi_path(temp_dir) == Join(temp_dir, "score.midi")
final_pdf_path(output_name) == Join(cache_dir, pdf_name(output_name))
final_midi_path(output_name) == Join(cache_dir, midi_name(output_name))

ScratchPaths(d) == {temp_ly_path(d), temp_pdf_path(d), temp_midi_path(d)}
CachePaths == {final_pdf_path(n) : n \in Names} \cup {final_midi_path(n) : n \in Names}
Paths == UNION {ScratchPaths(d) : d \in TempDirs} \cup CachePaths

(* The bytes the engraver writes for a source: a PDF and a MIDI document,  *)
(* each with its magic header, so never empty.  A truncated file is "".    *)
PdfOf(ly) == "%PDF-1.4 " \o ly
MidiOf(ly) == "MThd " \o ly

(* Every outcome one run of the external tool can have on source ly. *)
Lilypond(ly) ==
    [returncode : {1}, stderr : Stderrs,
     pdf : {Absent, PdfOf(ly)}, midi : {Absent, MidiOf(ly)}]
    \cup
    [returncode : {0}, stderr : {""},
     pdf : {Absent, PdfOf(ly)}, midi : {Absent, MidiOf(ly)}]

-----------------------------------------------------------------------------
(* Python exceptions: class and str(e) *)

Bases(cls) ==
    CASE cls = "FileNotFoundError" -> {"FileNotFoundError", "OSError", "Exception", "BaseException"}
      [] cls = "OSError" -> {"OSError", "Exception", "BaseException"}
      [] OTHER -> {cls, "BaseException"}

ENOSPC == [cls |-> "OSError", msg |-> "[Errno 28] No space left on device"]
ENOENT == [cls |-> "FileNotFoundError", msg |-> "[Errno 2] No such file or directory"]

(* variant: `except FileNotFoundError`, as find_lilypond has it *)
CaughtFileNotFound(e) == "FileNotFoundError" \in Bases(e.cls)

(* `except Exception as e` *)
Caught(e) == "Exception" \in Bases(e.cls)

-----------------------------------------------------------------------------
(* Return values: the 5-tuple (pdf_data, pdf_filename, midi_data, midi_filename, error) *)

NotReturned == [pdf_data |-> None, pdf_filename |-> None, midi_data |-> None,
                midi_filename |-> None, error |-> "<not returned>"]

Failure(message) == [pdf_data |-> None, pdf_filename |-> None, midi_data |-> None,
                     midi_filename |-> None, error |-> message]

(* variant: the message is the bare stderr text *)
ToolFailureUnprefixed(result) == Failure(result.stderr)

ToolFailure(result) == Failure("LilyPond Error: " \o result.stderr)

NoPdfFailure == Failure("LilyPond did not generate a PDF.")

(* variant: the handler hands back whatever locals were bound so far *)
ExceptReturnPartial(f, e) ==
    [pdf_data |-> f.pdf_data, pdf_filename |-> f.pdf_filename,
     midi_data |-> f.midi_data, midi_filename |-> f.midi_filename,
     error |-> "Error during conversion: " \o e.msg]

ExceptReturn(f, e) == Failure("Error during conversion: " \o e.msg)

Success(f) == [pdf_data |-> f.pdf_data, pdf_filename |-> f.pdf_filename,
               midi_data |-> f.midi_data, midi_filename |-> f.midi_filename,
               error |-> None]

NotRun == [ran |-> FALSE, returncode |-> 0, stderr |-> ""]

(* The frame before the call: no locals bound. *)
Frame(ly, name) ==
    [pc |-> "mkdtemp", ly_content |-> ly, output_name |-> name, temp_dir |-> None,
     result |-> NotRun, left |-> {}, pdf_data |-> None, pdf_filename |-> None,
     midi_data |-> None, midi_filename |-> None, overwrote |-> FALSE,
     ret |-> NotReturned]

Idle == [Frame("", "") EXCEPT !.pc = "idle"]

InFlight(c) == call[c].pc \notin {"idle", "propagated"}
Returned(c) == call[c].pc = "idle" /\ call[c].ret # NotReturned

-----------------------------------------------------------------------------
(* find_lilypond and the host it looks at.  A host is what the function    *)
(* reads: os.name, platform.system(), the two environment variables, the   *)
(* home directory, how `lilypond --version` ends, and for each conventional*)
(* install location whether it is missing, a file, or an executable file.  *)

MaxRuns == 2     \* runs of the script (each one looks the executable up)
MaxEvents == 4   \* things a user does on the page in one session

Platforms ==
    {[os_name |-> "nt", system |-> "Windows"],
     [os_name |-> "posix", system |-> "Darwin"],
     [os_name |-> "posix", system |-> "Linux"]}

(* subprocess.run(['lilypond', '--version'], check=False): exit status 0,  *)
(* another exit status, or FileNotFoundError.                              *)
BareOutcomes == {"exit0", "exit1", "FileNotFoundError"}

PathStatus == {"missing", "file", "xfile"}

(* os.environ.get(key, default) *)
environ_get(value, default) == IF value = None THEN default ELSE value
program_files(environ) == environ_get(environ.PROGRAMFILES, "C:\\Program Files")
program_files_x86(environ) == environ_get(environ.PROGRAMFILES_X86, "C:\\Program Files (x86)")

(* os.path.join on Windows *)
nt_join(base_dir, rest) == base_dir \o "\\" \o rest

windows_paths(environ) ==
    <<nt_join(program_files(environ), "LilyPond\\usr\\bin\\lilypond.exe"),
      nt_join(program_files(environ), "LilyPond\\bin\\lilypond.exe"),
      nt_join(program_files_x86(environ), "LilyPond\\usr\\bin\\lilypond.exe"),
      nt_join(program_files_x86(environ), "LilyPond\\bin\\lilypond.exe")>>

(* os.path.expanduser('~/...') *)
expanduser(home, rest) == home \o rest

macos_paths(home) ==
    <<"/Applications/LilyPond.app/Contents/Resources/bin/lilypond",
      expanduser(home, "/Applications/LilyPond.app/Contents/Resources/bin/lilypond")>>

linux_paths == <<"/usr/bin/lilypond", "/usr/local/bin/lilypond">>

Range(seq) == {seq[i] : i \in 1..Len(seq)}

Unset == [PROGRAMFILES |-> None, PROGRAMFILES_X86 |-> None]
Environs(pl) ==
    IF pl.os_name = "nt"
    THEN {Unset, [PROGRAMFILES |-> "D:\\Programs", PROGRAMFILES_X86 |-> None]}
    ELSE {Unset}

HomeOf(pl) ==
    CASE pl.system = "Windows" -> "C:\\Users\\me"
      [] pl.system = "Darwin" -> "/Users/me"
      [] OTHER -> "/home/me"

(* The install locations that can hold a file on a platform. *)
Installable(pl, environ) ==
    CASE pl.system = "Windows" -> Range(windows_paths(environ))
      [] pl.system = "Darwin" -> Range(macos_paths(HomeOf(pl))) \cup Range(linux_paths)
      [] OTHER -> Range(linux_paths)

HostsOn(pl) ==
    UNION {[os_name : {pl.os_name}, system : {pl.system}, environ : {env},
            home : {HomeOf(pl)}, bare : BareOutcomes,
            status : [Installable(pl, env) -> PathStatus]] : env \in Environs(pl)}

Hosts == UNION {HostsOn(pl) : pl \in Platforms}

StatusOf(h, path) == IF path \in DOMAIN h.status THEN h.status[path] ELSE "missing"
isfile(h, path) == StatusOf(h, path) \in {"file", "xfile"}
access_X_OK(h, path) == StatusOf(h, path) = "xfile"

(* the if / elif / else that fills common_paths *)
common_paths(h) ==
    IF h.os_name = "nt"
    THEN windows_paths(h.environ)
    ELSE IF h.system = "darwin"
    THEN macos_paths(h.home)
    ELSE linux_paths

(* for path in common_paths: if isfile(path) and access(path, X_OK): return path *)
(* paths probed, and the path returned (None when the loop runs out)       *)
CheckEachPath(h, paths) ==
    LET hits == {i \in 1..Len(paths) : isfile(h, paths[i]) /\ access_X_OK(h, paths[i])}
        first == CHOOSE i \in hits : \A j \in hits : i <= j
    IN  IF hits = {}
        THEN [result |-> None, probed |-> paths]
        ELSE [result |-> paths[first], probed |-> SubSeq(paths, 1, first)]

(* variant: the install locations are tried before the bare command *)
find_lilypond_paths_first(h) ==
    LET found == CheckEachPath(h, common_paths(h)) IN
    IF found.result # None
    THEN found
    ELSE [result |-> IF h.bare = "exit0" THEN "lilypond" ELSE None, probed |-> found.probed]

find_lilypond(h) ==
    IF h.bare = "exit0"
    THEN [result |-> "lilypond", probed |-> <<>>]
    ELSE CheckEachPath(h, common_paths(h))

NoHost == [os_name |-> None, system |-> None, environ |-> Unset, home |-> None,
           bare |-> None, status |-> <<>>]

(* No script run yet: nothing looked up. *)
NotLocated ==
    [runs |-> 0, spawns |-> 0, host |-> NoHost, lilypond_path |-> None,
     probed |-> <<>>, first |-> None]

-----------------------------------------------------------------------------
(* The page: st.session_state, the widgets' states in the browser, and     *)
(* what the last run of the script rendered and called.                    *)
(* A text a user types into a filename box is kept as the sequence of its  *)
(* pieces, cut at the characters a file system gives a meaning to.         *)

RECURSIVE Str(_)
Str(pieces) == IF pieces = <<>> THEN "" ELSE Head(pieces) \o Str(Tail(pieces))

(* value="my_sheet_music"; default_name = "output" *)
my_sheet_music == <<"my_sheet_music">>
output == <<"output">>

(* what can be typed into "Output Filename" *)
TypedNames == {my_sheet_music, <<>>, <<"..", "/", "x">>}

(* the uploader's file: name and decoded content *)
NoFile == [name |-> <<>>, content |-> None]
Files == {[name |-> <<"song", ".ly">>, content |-> "d'4"]}

(* os.path.splitext(uploaded_file.name)[0] *)
splitext0(name) ==
    IF Len(name) > 1 /\ name[Len(name)] = ".ly" THEN SubSeq(name, 1, Len(name) - 1) ELSE name

(* instrument_templates[template_choice], piano_sheet, lily_code *)
instrument_template == "\\version \"2.24.0\" \\score { \\new PianoStaff << >> }"
piano_sheet == "[Your sample piano sheet code]"
lily_code == "\\score { \\new ChordNames { \\chordmode { c1 | f1 | g1 | c1 | } } }"

(* Python truth value of a str-or-None *)
Truthy(x) == x # None /\ x # ""

(* A keyless st.text_area / a st.text_input: while the script passes the   *)
(* same value argument the widget returns what the browser holds; a new    *)
(* value argument makes it a new widget that returns that value.           *)
Widget(w, value) == IF w.value = value THEN w ELSE [value |-> value, text |-> value]

NotInvoked == [tab |-> None, ly_content |-> None, output_name |-> <<>>,
               lilypond_path |-> None, uploaded_file |-> NoFile]
Blank == [convert_text_disabled |-> TRUE, convert_file_disabled |-> TRUE,
          guidance |-> FALSE, download |-> FALSE, error |-> None]

(* A session before the first run of the script. *)
NoSession ==
    [pdf_generated |-> FALSE, pdf_data |-> None, pdf_filename |-> None,
     midi_data |-> None, midi_filename |-> None, ly_text |-> "",
     last_uploaded_file |-> <<>>,
     text_area |-> [value |-> "", text |-> ""],
     output_filename |-> my_sheet_music,
     uploaded_file |-> NoFile,
     file_output |-> [value |-> output, text |-> output],
     events |-> 0, clicked |-> "", lilypond_path |-> None, view |-> Blank,
     invoked |-> NotInvoked, wrote |-> {}, pdf_from |-> NotInvoked]

-----------------------------------------------------------------------------
Init ==
    /\ call = [c \in Calls |-> Idle]
    /\ fs = [p \in Paths |-> Absent]
    /\ dirs = {}
    /\ ncalls = 0
    /\ last_ok = [n \in Names |-> None]
    /\ loc = NotLocated
    /\ ui = NoSession


-----------------------------------------------------------------------------
(* Filesystem primitives *)

Exists(path) == fs[path] # Absent

(* TemporaryDirectory.__exit__: the scratch directory and all it holds go. *)
RemoveTree(d) == [p \in Paths |-> IF p \in ScratchPaths(d) THEN Absent ELSE fs[p]]

(* open(dst, 'wb') inside shutil.copyfile: the destination is created or   *)
(* truncated before any byte is copied.                                    *)
Truncated(dst) == [fs EXCEPT ![dst] = ""]

(* the data pass of shutil.copyfile *)
Copied(src, dst) == [fs EXCEPT ![dst] = fs[src]]

(* Another in-flight call with the same output_name has already opened or  *)
(* written the cache file this call is about to open for writing.          *)
WrotePdf == {"copy_pdf_data", "read_pdf", "copy_midi", "copy_midi_data", "read_midi"}
WroteMidi == {"copy_midi_data", "read_midi"}
Collides(c, wrote) ==
    \E c2 \in Calls \ {c} :
        call[c2].output_name = call[c].output_name /\ call[c2].pc \in wrote

-----------------------------------------------------------------------------
(* Leaving the function *)

(* `return r` from inside the with block (or from the except clause): the  *)
(* scratch directory, if one was made, is removed, then r is handed back.  *)
(* f is the frame and files the filesystem at the point of leaving; the    *)
(* frame's locals die with it, its arguments and the result of the run are *)
(* kept as the record of the call.  Removing a directory the call itself   *)
(* made, and that nothing else opens, is taken to succeed.                 *)
LeaveFrom(c, f, files, r) ==
    /\ call' = [call EXCEPT ![c] = [f EXCEPT !.pc = "idle", !.temp_dir = None,
                                             !.pdf_data = None, !.pdf_filename = None,
                                             !.midi_data = None, !.midi_filename = None,
                                             !.ret = r]]
    /\ fs' = IF f.temp_dir = None
             THEN files
             ELSE [p \in Paths |-> IF p \in ScratchPaths(f.temp_dir) THEN Absent ELSE files[p]]
    /\ dirs' = dirs \ {f.temp_dir}
    /\ last_ok' = IF r.error = None
                  THEN [last_ok EXCEPT ![f.output_name] = r.pdf_data]
                  ELSE last_ok
    /\ UNCHANGED <<ncalls, others>>

Leave(c, f, r) == LeaveFrom(c, f, fs, r)

(* An exception e raised by a statement of the try block: the with block   *)
(* unwinds, then `except Exception as e` turns it into the error tuple.    *)
(* An exception outside Exception's subtree would reach the caller.        *)
Raise(c, f, e) ==
    IF Caught(e)
    THEN Leave(c, f, ExceptReturn(f, e))
    ELSE /\ call' = [call EXCEPT ![c] = [f EXCEPT !.pc = "propagated", !.temp_dir = None]]
         /\ fs' = IF f.temp_dir = None THEN fs ELSE RemoveTree(f.temp_dir)
         /\ dirs' = dirs \ {f.temp_dir}
         /\ UNCHANGED <<ncalls, last_ok, others>>

(* variant: the second check accepts any output file *)
CheckOutputAnyFile(c, ran, out) ==
    IF ran.result.returncode # 0
    THEN LeaveFrom(c, ran, out, ToolFailure(ran.result))
    ELSE IF out[temp_pdf_path(ran.temp_dir)] = Absent /\ out[temp_midi_path(ran.temp_dir)] = Absent
    THEN LeaveFrom(c, ran, out, NoPdfFailure)
    ELSE /\ call' = [call EXCEPT ![c] = [ran EXCEPT !.pc = "makedirs"]]
         /\ fs' = out
         /\ UNCHANGED <<dirs, ncalls, last_ok, others>>

(* The checks after the run, on the frame `ran` and the files `out` the    *)
(* tool left: lines 80-86.                                                 *)
CheckOutput(c, ran, out) ==
    IF ran.result.returncode # 0
    THEN LeaveFrom(c, ran, out, ToolFailure(ran.result))
    ELSE IF out[temp_pdf_path(ran.temp_dir)] = Absent
    THEN LeaveFrom(c, ran, out, NoPdfFailure)
    ELSE /\ call' = [call EXCEPT ![c] = [ran EXCEPT !.pc = "makedirs"]]
         /\ fs' = out
         /\ UNCHANGED <<dirs, ncalls, last_ok, others>>

-----------------------------------------------------------------------------
(* The statements of convert_lilypond *)

(* return pdf_data, pdf_filename, midi_data, midi_filename, None *)
Return(c, f) == Leave(c, f, Success(f))

(* convert_lilypond(ly_content, output_name, lilypond_path) is entered on   *)
(* thread c.                                                               *)
Enter(c, ly, name) ==
    /\ call[c].pc = "idle"
    /\ call' = [call EXCEPT ![c] = Frame(ly, name)]
    /\ ncalls' = ncalls + 1
    /\ UNCHANGED <<fs, dirs, last_ok, others>>

Call(c, ly, name) ==
    /\ ncalls < MaxCalls
    /\ Enter(c, ly, name)

(* variant: a fixed scratch directory, os.makedirs(..., exist_ok=True) *)
MkDTempFixed(c) ==
    /\ call[c].pc = "mkdtemp"
    /\ \/ /\ dirs' = dirs \cup {Join(TempRoot, "tmp_a")}
          /\ call' = [call EXCEPT ![c].temp_dir = Join(TempRoot, "tmp_a"), ![c].pc = "write"]
          /\ UNCHANGED <<fs, ncalls, last_ok, others>>
       \/ Raise(c, call[c], ENOSPC)

(* with tempfile.TemporaryDirectory() as temp_dir: mkdtemp makes a         *)
(* directory under a name nothing else has.                                *)
MkDTemp(c) ==
    /\ call[c].pc = "mkdtemp"
    /\ \/ \E d \in TempDirs \ dirs :
            /\ dirs' = dirs \cup {d}
            /\ call' = [call EXCEPT ![c].temp_dir = d, ![c].pc = "write"]
            /\ UNCHANGED <<fs, ncalls, last_ok, others>>
       \/ Raise(c, call[c], ENOSPC)

(* with open(temp_ly_path, 'w') as f: f.write(ly_content) *)
WriteSource(c) ==
    LET f == call[c] IN
    /\ f.pc = "write"
    /\ \/ /\ fs' = [fs EXCEPT ![temp_ly_path(f.temp_dir)] = f.ly_content]
          /\ call' = [call EXCEPT ![c].pc = "run"]
          /\ UNCHANGED <<dirs, ncalls, last_ok, others>>
       \/ Raise(c, call[c], ENOSPC)

(* result = subprocess.run([lilypond_path, '--output=' + temp_dir, temp_ly_path], ...) *)
(* followed by the two checks of what the run left behind:                 *)
(*   if result.returncode != 0: return ..., f"LilyPond Error: {result.stderr}" *)
(*   if not os.path.exists(temp_pdf_path): return ..., "LilyPond did not generate a PDF." *)
RunLilypond(c) ==
    LET f == call[c] IN
    /\ f.pc = "run"
    /\ \/ \E o \in Lilypond(fs[temp_ly_path(f.temp_dir)]) :
            LET ran == [f EXCEPT
                          !.result = [ran |-> TRUE, returncode |-> o.returncode,
                                      stderr |-> o.stderr],
                          !.left = {n \in {"score.pdf", "score.midi"} :
                                       \/ n = "score.pdf" /\ o.pdf # Absent
                                       \/ n = "score.midi" /\ o.midi # Absent}]
                out == [fs EXCEPT ![temp_pdf_path(f.temp_dir)] = o.pdf,
                                  ![temp_midi_path(f.temp_dir)] = o.midi]
            IN  CheckOutput(c, ran, out)
       \/ Raise(c, f, ENOENT)

(* variant: the cache entry <name>.midi of an earlier call is removed      *)
(* before the PDF is copied                                                *)
MakeDirsFresh(c) ==
    /\ call[c].pc = "makedirs"
    /\ \/ /\ dirs' = dirs \cup {cache_dir}
          /\ fs' = [fs EXCEPT ![final_midi_path(call[c].output_name)] = Absent]
          /\ call' = [call EXCEPT ![c].pc = "copy_pdf"]
          /\ UNCHANGED <<ncalls, last_ok, others>>
       \/ Raise(c, call[c], ENOSPC)

(* os.makedirs(cache_dir, exist_ok=True) *)
MakeDirs(c) ==
    /\ call[c].pc = "makedirs"
    /\ \/ /\ dirs' = dirs \cup {cache_dir}
          /\ call' = [call EXCEPT ![c].pc = "copy_pdf"]
          /\ UNCHANGED <<fs, ncalls, last_ok, others>>
       \/ Raise(c, call[c], ENOSPC)

(* shutil.copy2(temp_pdf_path, final_pdf_path): open source and destination *)
CopyPdfOpen(c) ==
    LET f == call[c] IN
    /\ f.pc = "copy_pdf"
    /\ \/ /\ Exists(temp_pdf_path(f.temp_dir))
          /\ cache_dir \in dirs
          /\ fs' = Truncated(final_pdf_path(f.output_name))
          /\ call' = [call EXCEPT ![c].pc = "copy_pdf_data",
                                  ![c].overwrote = f.overwrote \/ Collides(c, WrotePdf)]
          /\ UNCHANGED <<dirs, ncalls, last_ok, others>>
       \/ /\ ~Exists(temp_pdf_path(f.temp_dir)) \/ cache_dir \notin dirs
          /\ Raise(c, call[c], ENOENT)
       \/ Raise(c, call[c], ENOSPC)

(* shutil.copy2(temp_pdf_path, final_pdf_path): copy the bytes *)
CopyPdfData(c) ==
    LET f == call[c] IN
    /\ f.pc = "copy_pdf_data"
    /\ \/ /\ fs' = Copied(temp_pdf_path(f.temp_dir), final_pdf_path(f.output_name))
          /\ call' = [call EXCEPT ![c].pc = "read_pdf"]
          /\ UNCHANGED <<dirs, ncalls, last_ok, others>>
       \/ Raise(c, call[c], ENOSPC)

(* with open(final_pdf_path, "rb") as pdf_file: pdf_data = pdf_file.read() ... *)
(* then os.path.exists(temp_midi_path) picks the branch: copy the MIDI, or *)
(* return with midi_data and midi_filename still None.                     *)
ReadPdf(c) ==
    LET f == call[c]
        got == [f EXCEPT !.pdf_data = fs[final_pdf_path(f.output_name)],
                         !.pdf_filename = pdf_name(f.output_name)]
    IN
    /\ f.pc = "read_pdf"
    /\ \/ /\ Exists(final_pdf_path(f.output_name))
          /\ IF Exists(temp_midi_path(f.temp_dir))
             THEN /\ call' = [call EXCEPT ![c] = [got EXCEPT !.pc = "copy_midi"]]
                  /\ UNCHANGED <<fs, dirs, ncalls, last_ok, others>>
             ELSE Return(c, got)
       \/ /\ ~Exists(final_pdf_path(f.output_name))
          /\ Raise(c, f, ENOENT)
       \/ Raise(c, f, ENOSPC)

(* shutil.copy2(temp_midi_path, final_midi_path): open source and destination *)
CopyMidiOpen(c) ==
    LET f == call[c] IN
    /\ f.pc = "copy_midi"
    /\ \/ /\ fs' = Truncated(final_midi_path(f.output_name))
          /\ call' = [call EXCEPT ![c].pc = "copy_midi_data",
                                  ![c].overwrote = f.overwrote \/ Collides(c, WroteMidi)]
          /\ UNCHANGED <<dirs, ncalls, last_ok, others>>
       \/ Raise(c, call[c], ENOSPC)

(* variant: the MIDI is copied over the PDF's cache entry *)
CopyMidiDataOverPdf(c) ==
    LET f == call[c] IN
    /\ f.pc = "copy_midi_data"
    /\ \/ /\ fs' = Copied(temp_midi_path(f.temp_dir), final_pdf_path(f.output_name))
          /\ call' = [call EXCEPT ![c].pc = "read_midi"]
          /\ UNCHANGED <<dirs, ncalls, last_ok, others>>
       \/ Raise(c, call[c], ENOSPC)

(* shutil.copy2(temp_midi_path, final_midi_path): copy the bytes *)
CopyMidiData(c) ==
    LET f == call[c] IN
    /\ f.pc = "copy_midi_data"
    /\ \/ /\ fs' = Copied(temp_midi_path(f.temp_dir), final_midi_path(f.output_name))
          /\ call' = [call EXCEPT ![c].pc = "read_midi"]
          /\ UNCHANGED <<dirs, ncalls, last_ok, others>>
       \/ Raise(c, call[c], ENOSPC)

(* variant: midi_filename is never bound *)
ReadMidiNoName(c) ==
    LET f == call[c]
        got == [f EXCEPT !.midi_data = fs[final_midi_path(f.output_name)]]
    IN
    /\ f.pc = "read_midi"
    /\ \/ Return(c, got)
       \/ Raise(c, f, ENOSPC)

(* with open(final_midi_path, "rb") as midi_file: midi_data = midi_file.read() ... *)
(* and the return that follows.                                            *)
ReadMidi(c) ==
    LET f == call[c]
        got == [f EXCEPT !.midi_data = fs[final_midi_path(f.output_name)],
                         !.midi_filename = midi_name(f.output_name)]
    IN
    /\ f.pc = "read_midi"
    /\ \/ Return(c, got)
       \/ Raise(c, f, ENOSPC)

Step(c) ==
    \/ MkDTemp(c)
    \/ WriteSource(c)
    \/ RunLilypond(c)
    \/ MakeDirs(c)
    \/ CopyPdfOpen(c)
    \/ CopyPdfData(c)
    \/ ReadPdf(c)
    \/ CopyMidiOpen(c)
    \/ CopyMidiData(c)
    \/ ReadMidi(c)

(* Calls of any threads, overlapping freely. *)
Next ==
    \/ \E c \in Calls, ly \in Sources, name \in Names : Call(c, ly, name)
    \/ \E c \in Calls : Step(c)

Spec == Init /\ [][Next]_vars

(* Calls that do not overlap: one starts only when none is in flight. *)
Quiescent == \A c \in Calls : call[c].pc = "idle"

SeqCall(c, ly, name) ==
    /\ ncalls < MaxCalls
    /\ Quiescent
    /\ Enter(c, ly, name)

SeqNext ==
    \/ \E c \in Calls, ly \in Sources, name \in Names : SeqCall(c, ly, name)
    \/ \E c \in Calls : Step(c)

SeqSpec == Init /\ [][SeqNext]_vars

-----------------------------------------------------------------------------
(* Vocabulary of the claims *)

IsSuccess(r) == r.error = None
IOFailures == {"Error during conversion: " \o e.msg : e \in {ENOSPC, ENOENT}}
ExitedWith(c, code) == call[c].result.ran /\ call[c].result.returncode = code

-----------------------------------------------------------------------------
(* C1: a call whose tool run exits non-zero returns the error tuple whose  *)
(* message is "LilyPond Error: " followed by the captured stderr verbatim, *)
(* with all four artifact fields None, whatever files the tool left.       *)
C1_NonZeroExitIsToolFailure ==
    \A c \in Calls :
        (Returned(c) /\ call[c].result.ran /\ call[c].result.returncode # 0) =>
            call[c].ret = [pdf_data |-> None, pdf_filename |-> None,
                           midi_data |-> None, midi_filename |-> None,
                           error |-> "LilyPond Error: " \o call[c].result.stderr]

(* A call returned after a failing run that printed to stderr and left both files. *)
C1_Witness ==
    \E c \in Calls :
        /\ Returned(c) /\ ExitedWith(c, 1)
        /\ call[c].result.stderr # ""
        /\ call[c].left = {"score.pdf", "score.midi"}

(* C2: exit status zero without score.pdf returns the fixed diagnostic and *)
(* no artifact, also when score.midi was produced.                         *)
C2_MissingPdfIsFailure ==
    \A c \in Calls :
        (Returned(c) /\ ExitedWith(c, 0) /\ "score.pdf" \notin call[c].left) =>
            call[c].ret = [pdf_data |-> None, pdf_filename |-> None,
                           midi_data |-> None, midi_filename |-> None,
                           error |-> "LilyPond did not generate a PDF."]

(* A call returned after a run that exited zero and left only score.midi. *)
C2_Witness ==
    \E c \in Calls :
        /\ Returned(c) /\ ExitedWith(c, 0)
        /\ call[c].left = {"score.midi"}

(* C3: exit status zero with score.pdf produced and no I/O step failing    *)
(* returns Success with non-empty PDF bytes named <output_name>.pdf.       *)
C3_SuccessHasNonEmptyPdf ==
    \A c \in Calls :
        (/\ Returned(c) /\ ExitedWith(c, 0) /\ "score.pdf" \in call[c].left
         /\ call[c].ret.error \notin IOFailures) =>
            /\ IsSuccess(call[c].ret)
            /\ call[c].ret.pdf_data \notin {None, ""}
            /\ call[c].ret.pdf_filename = call[c].output_name \o ".pdf"

(* C4: on Success the MIDI bytes and the MIDI file name are both None      *)
(* exactly when the run left no score.midi, and otherwise both bound, the  *)
(* name being <output_name>.midi.                                          *)
C4_MidiBothOrNeither ==
    \A c \in Calls :
        (Returned(c) /\ IsSuccess(call[c].ret)) =>
            IF "score.midi" \in call[c].left
            THEN /\ call[c].ret.midi_data # None
                 /\ call[c].ret.midi_filename = call[c].output_name \o ".midi"
            ELSE /\ call[c].ret.midi_data = None
                 /\ call[c].ret.midi_filename = None

(* One call succeeded without a MIDI file and another succeeded with one. *)
C4_Witness ==
    \E c1, c2 \in Calls :
        /\ Returned(c1) /\ IsSuccess(call[c1].ret) /\ call[c1].left = {"score.pdf"}
        /\ Returned(c2) /\ IsSuccess(call[c2].ret) /\ "score.midi" \in call[c2].left

(* C5: every returned tuple is one variant: an error message with the four *)
(* artifact fields None, or no error with pdf_data and pdf_filename bound. *)
C5_ExactlyOneVariant ==
    \A c \in Calls :
        Returned(c) =>
            LET r == call[c].ret IN
            \/ /\ r.error # None
               /\ r.pdf_data = None /\ r.pdf_filename = None
               /\ r.midi_data = None /\ r.midi_filename = None
            \/ /\ r.error = None
               /\ r.pdf_data # None /\ r.pdf_filename # None

(* A call failed on an I/O error while copying the MIDI, after it had read *)
(* the PDF back: the cache holds its PDF and a truncated MIDI.             *)
C5_Witness ==
    \E c \in Calls :
        /\ Returned(c) /\ call[c].ret.error \in IOFailures
        /\ ncalls = 1
        /\ fs[final_pdf_path(call[c].output_name)] = PdfOf(call[c].ly_content)
        /\ fs[final_midi_path(call[c].output_name)] = ""

(* C6: no exception of a file or process step reaches the caller: the call *)
(* ends with an error tuple carrying a message, and the thread is free for *)
(* a further call.                                                         *)
C6_NoErrorPropagates ==
    \A c \in Calls :
        /\ call[c].pc # "propagated"
        /\ (Returned(c) /\ ~IsSuccess(call[c].ret)) =>
               /\ call[c].ret.error # ""
               /\ (ncalls < MaxCalls =>
                      \A ly \in Sources, name \in Names : ENABLED Call(c, ly, name))

(* A call failed on an I/O error while copying its MIDI, leaving its PDF   *)
(* and a truncated MIDI in the cache; a call with the same name and        *)
(* another source then wrote its PDF over the entry and succeeded.         *)
C6_Witness ==
    \E c1, c2 \in Calls :
        /\ Returned(c1) /\ call[c1].ret.error \in IOFailures
        /\ "score.midi" \in call[c1].left
        /\ Returned(c2) /\ IsSuccess(call[c2].ret) /\ "score.midi" \notin call[c2].left
        /\ call[c1].output_name = call[c2].output_name
        /\ call[c1].ly_content # call[c2].ly_content
        /\ fs[final_midi_path(call[c1].output_name)] = ""
        /\ fs[final_pdf_path(call[c1].output_name)] = PdfOf(call[c2].ly_content)

(* C7: every call past mkdtemp owns a scratch directory no other call      *)
(* holds, and a scratch directory exists only while the call that made it  *)
(* is in flight: after any return, by any exit path, it and its files are  *)
(* gone.                                                                   *)
C7_ScratchPrivateAndReleased ==
    /\ \A c \in Calls :
          IF InFlight(c) /\ call[c].pc # "mkdtemp"
          THEN call[c].temp_dir \in dirs
          ELSE call[c].temp_dir = None
    /\ \A c1, c2 \in Calls :
          (c1 # c2 /\ call[c1].temp_dir # None) => call[c1].temp_dir # call[c2].temp_dir
    /\ \A d \in TempDirs :
          IF d \in dirs
          THEN \E c \in Calls : InFlight(c) /\ call[c].temp_dir = d
          ELSE \A p \in ScratchPaths(d) : fs[p] = Absent

(* One call holds a scratch directory with the tool's output in it while   *)
(* another, which had its own, has returned through the except clause.     *)
C7_Witness ==
    \E c1, c2 \in Calls :
        /\ InFlight(c1) /\ call[c1].pc = "makedirs"
        /\ Returned(c2) /\ call[c2].result.ran /\ call[c2].ret.error \in IOFailures
        /\ dirs \cap TempDirs = {call[c1].temp_dir}

(* C8: the bytes a successful call returns are the bytes its own run of    *)
(* the tool produced, under any interleaving.                              *)
C8_ReturnsOwnBytes ==
    \A c \in Calls :
        (Returned(c) /\ IsSuccess(call[c].ret)) =>
            /\ call[c].ret.pdf_data = PdfOf(call[c].ly_content)
            /\ call[c].ret.midi_data \in {None, MidiOf(call[c].ly_content)}

(* C9: a call that opened, for writing, a cache file another in-flight     *)
(* call with the same output_name had written does not return Success.     *)
C9_CollisionIsReported ==
    \A c \in Calls :
        (Returned(c) /\ call[c].overwrote) => ~IsSuccess(call[c].ret)

(* C10 as stated: once no call is in flight, <n>.pdf in the cache holds    *)
(* the PDF bytes of the latest successful call named n.                    *)
C10_CacheHoldsLastSuccess ==
    Quiescent =>
        \A n \in Names :
            last_ok[n] # None => fs[final_pdf_path(n)] = last_ok[n]

(* C10 as amended: <n>.pdf exists once a call named n has succeeded, holds *)
(* the returned bytes at the moment a call named n returns Success, and is *)
(* changed only by the PDF copy of a call named n.                         *)
C10_Exists ==
    \A n \in Names : last_ok[n] # None => Exists(final_pdf_path(n))

C10_Step ==
    \A n \in Names :
        /\ \A c \in Calls :
              (call[c].pc # "idle" /\ call'[c].pc = "idle" /\ IsSuccess(call'[c].ret)
                 /\ call[c].output_name = n) =>
                     /\ last_ok'[n] = call'[c].ret.pdf_data
                     /\ fs'[final_pdf_path(n)] = call'[c].ret.pdf_data
        /\ fs'[final_pdf_path(n)] # fs[final_pdf_path(n)] =>
              \E c \in Calls :
                  /\ call[c].output_name = n
                  /\ call[c].pc \in {"copy_pdf", "copy_pdf_data"}
                  /\ call'[c].pc \in {"copy_pdf_data", "read_pdf"}

C10_CacheHoldsLastCopy == []C10_Exists /\ [][C10_Step]_vars

(* Two calls with one name and different sources succeeded one after the   *)
(* other; the cache entry holds the second one's PDF and no scratch        *)
(* directory is left.                                                      *)
C10_Witness ==
    \E c1, c2 \in Calls :
        /\ c1 # c2 /\ Quiescent
        /\ IsSuccess(call[c1].ret) /\ IsSuccess(call[c2].ret)
        /\ call[c1].output_name = call[c2].output_name
        /\ call[c1].ly_content # call[c2].ly_content
        /\ last_ok[call[c2].output_name] = call[c2].ret.pdf_data
        /\ fs[final_pdf_path(call[c2].output_name)] = call[c2].ret.pdf_data
        /\ dirs \cap TempDirs = {}

-----------------------------------------------------------------------------
(* The lookup as the script makes it *)

(* lilypond_path = find_lilypond(), the first statement of the main script *)
(* that does any work: it is executed by every run of the script, on the   *)
(* host as it is at that moment (the platform stays, files come and go).   *)
Locate(h) ==
    LET found == find_lilypond(h) IN
    [runs |-> loc.runs + 1,
     spawns |-> loc.spawns + 1,
     host |-> h,
     lilypond_path |-> found.result,
     probed |-> found.probed,
     first |-> IF loc.runs = 0 THEN found.result ELSE loc.first]

SamePlatform(h) ==
    loc.runs = 0 \/ (h.os_name = loc.host.os_name /\ h.system = loc.host.system
                     /\ h.environ = loc.host.environ)

ScriptRun(h) ==
    /\ loc.runs < MaxRuns
    /\ SamePlatform(h)
    /\ loc' = Locate(h)
    /\ UNCHANGED <<call, fs, dirs, ncalls, last_ok, ui>>

LocNext == \E h \in Hosts : ScriptRun(h)

LocSpec == Init /\ [][LocNext]_vars

-----------------------------------------------------------------------------
(* One call of convert_lilypond as the page sees it: the tuple it returns  *)
(* and the cache files it wrote (each under the name it was given).        *)

(* f"{output_name}.pdf", f"{output_name}.midi" *)
pdf_pieces(output_name) == output_name \o <<".pdf">>
midi_pieces(output_name) == output_name \o <<".midi">>

Converted(ly_content, output_name) ==
    LET name == Str(output_name)
        runs == Lilypond(ly_content)
        bound(o) == [pdf_data |-> o.pdf, pdf_filename |-> pdf_name(name),
                     midi_data |-> IF o.midi = Absent THEN None ELSE o.midi,
                     midi_filename |-> IF o.midi = Absent THEN None ELSE midi_name(name)]
        copied(o) == {pdf_pieces(output_name)}
                         \cup IF o.midi = Absent THEN {} ELSE {midi_pieces(output_name)}
    IN  {[ret |-> ToolFailure(o), wrote |-> {}] : o \in {r \in runs : r.returncode # 0}}
        \cup {[ret |-> NoPdfFailure, wrote |-> {}] :
                 o \in {r \in runs : r.returncode = 0 /\ r.pdf = Absent}}
        \cup {[ret |-> Success(bound(o)), wrote |-> copied(o)] :
                 o \in {r \in runs : r.returncode = 0 /\ r.pdf # Absent}}
        \cup {[ret |-> ExceptReturn(Idle, ENOENT), wrote |-> {}]}
        \cup {[ret |-> ExceptReturn(Idle, ENOSPC), wrote |-> w] :
                 w \in {{}, {pdf_pieces(output_name)}}}

-----------------------------------------------------------------------------
(* The script, top to bottom.  ev is the button whose click started the    *)
(* run ("" when the run was started by a changed input or by st.rerun()).  *)

(* hosts the server of a session runs on *)
ServerHosts ==
    {h \in Hosts : /\ h.system = "Linux"
                   /\ h.bare \in {"exit0", "FileNotFoundError"}
                   /\ \A path \in Range(linux_paths) : StatusOf(h, path) = "missing"}

(* with tab1: ... from st.button("Load Sample") to the "Convert to PDF" button *)
Tab1(s, ev) ==
    LET ly_text == IF ev = "Load Sample" THEN piano_sheet ELSE s.ly_text
        text_area == Widget(s.text_area, ly_text)
    IN  [s EXCEPT !.pdf_generated =
                      IF ev = "Load Sample" \/ s.ly_text # text_area.text THEN FALSE ELSE @,
                  !.text_area = text_area,
                  !.ly_text = text_area.text]

(* with tab2: ... *)
Tab2(s) ==
    LET uploaded_file == s.uploaded_file
        default_name == IF uploaded_file # NoFile
                        THEN splitext0(uploaded_file.name)
                        ELSE output
    IN  [s EXCEPT !.pdf_generated =
                      IF /\ uploaded_file # NoFile
                         /\ s.last_uploaded_file # <<>>
                         /\ s.last_uploaded_file # uploaded_file.name
                      THEN FALSE ELSE @,
                  !.last_uploaded_file =
                      IF uploaded_file # NoFile THEN uploaded_file.name ELSE @,
                  !.file_output = Widget(@, default_name)]

(* with tab3: create_chord_helper() *)
Tab3(s, ev) ==
    IF ev = "Use This Progression" THEN [s EXCEPT !.ly_text = lily_code] ELSE s

(* what the run puts on the page: the status line, the two buttons'        *)
(* disabled arguments, the download section                                *)
Render(s) ==
    [s EXCEPT !.view = [convert_text_disabled |-> ~Truthy(s.lilypond_path),
                        convert_file_disabled |-> ~Truthy(s.lilypond_path)
                                                     \/ s.uploaded_file = NoFile,
                        guidance |-> ~Truthy(s.lilypond_path),
                        download |-> s.pdf_generated,
                        error |-> None]]

(* the call and the if error: ... else: ... that follows it *)
Stored(s, tab, ly_content, output_name, c) ==
    LET called == [s EXCEPT !.invoked = [tab |-> tab, ly_content |-> ly_content,
                                         output_name |-> output_name,
                                         lilypond_path |-> s.lilypond_path,
                                         uploaded_file |-> s.uploaded_file],
                            !.wrote = c.wrote]
    IN  IF Truthy(c.ret.error)
        THEN [state |-> [called EXCEPT !.view.error = c.ret.error], rerun |-> FALSE]
        ELSE [state |-> [called EXCEPT !.pdf_data = c.ret.pdf_data,
                                       !.pdf_filename = c.ret.pdf_filename,
                                       !.midi_data = c.ret.midi_data,
                                       !.midi_filename = c.ret.midi_filename,
                                       !.pdf_generated = TRUE,
                                       !.pdf_from = called.invoked],
              rerun |-> TRUE]

(* variant: the two branches test only the buttons *)
ProcessingUnguarded(s, ev) ==
    IF ev = "convert_text"
    THEN {Stored(s, "text", s.text_area.text, s.output_filename, c) :
              c \in Converted(s.text_area.text, s.output_filename)}
    ELSE IF ev = "convert_file" /\ s.uploaded_file # NoFile
    THEN {Stored(s, "upload", s.uploaded_file.content, s.file_output.text, c) :
              c \in Converted(s.uploaded_file.content, s.file_output.text)}
    ELSE {[state |-> s, rerun |-> FALSE]}

(* if convert_text and lilypond_path: ... elif convert_file and            *)
(* lilypond_path and uploaded_file is not None: ...                        *)
Processing(s, ev) ==
    IF ev = "convert_text" /\ Truthy(s.lilypond_path)
    THEN {Stored(s, "text", s.text_area.text, s.output_filename, c) :
              c \in Converted(s.text_area.text, s.output_filename)}
    ELSE IF ev = "convert_file" /\ Truthy(s.lilypond_path) /\ s.uploaded_file # NoFile
    THEN {Stored(s, "upload", s.uploaded_file.content, s.file_output.text, c) :
              c \in Converted(s.uploaded_file.content, s.file_output.text)}
    ELSE {[state |-> s, rerun |-> FALSE]}

(* One pass over the script on host h.  st.rerun() ends the pass.          *)
Pass(s, ev, h) ==
    LET a == [s EXCEPT !.lilypond_path = find_lilypond(h).result] IN
    IF ev = "Load Template"
    THEN {[state |-> [a EXCEPT !.ly_text = instrument_template, !.pdf_generated = FALSE],
           rerun |-> TRUE]}
    ELSE Processing(Render(Tab3(Tab2(Tab1(a, ev)), ev)), ev)

(* The passes one event causes: the run it starts and, when that run ends  *)
(* in st.rerun(), the run after it.                                        *)
Run(s, ev) ==
    UNION {UNION {IF r.rerun
                  THEN UNION {{q.state : q \in Pass(r.state, "", h2)} : h2 \in ServerHosts}
                  ELSE {r.state} : r \in Pass(s, ev, h1)} : h1 \in ServerHosts}

Event(s, ev) ==
    /\ ui.events < MaxEvents
    /\ ui' \in Run([s EXCEPT !.events = @ + 1, !.clicked = ev], ev)
    /\ UNCHANGED <<call, fs, dirs, ncalls, last_ok, loc>>

(* the browser opens the page *)
Open == ui.events = 0 /\ Event(ui, "")

(* the user changes the text in the editor *)
EditText(t) ==
    /\ ui.events > 0 /\ t # ui.text_area.text
    /\ Event([ui EXCEPT !.text_area.text = t], "")

LoadTemplate == ui.events > 0 /\ Event(ui, "Load Template")
LoadSample == ui.events > 0 /\ Event(ui, "Load Sample")
UseThisProgression == ui.events > 0 /\ Event(ui, "Use This Progression")

TypeOutputFilename(n) ==
    /\ ui.events > 0 /\ n # ui.output_filename
    /\ Event([ui EXCEPT !.output_filename = n], "")

Upload(f) ==
    /\ ui.events > 0 /\ f # ui.uploaded_file
    /\ Event([ui EXCEPT !.uploaded_file = f], "")

TypeFileOutput(n) ==
    /\ ui.events > 0 /\ n # ui.file_output.text
    /\ Event([ui EXCEPT !.file_output.text = n], "")

(* a button can be clicked when the last run rendered it enabled *)
ClickConvertText ==
    /\ ui.events > 0 /\ ~ui.view.convert_text_disabled
    /\ Event(ui, "convert_text")

ClickConvertFile ==
    /\ ui.events > 0 /\ ~ui.view.convert_file_disabled
    /\ Event(ui, "convert_file")

UINext ==
    \/ Open
    \/ \E t \in Sources : EditText(t)
    \/ LoadTemplate
    \/ LoadSample
    \/ UseThisProgression
    \/ \E n \in TypedNames : TypeOutputFilename(n)
    \/ \E f \in Files \cup {NoFile} : Upload(f)
    \/ \E n \in TypedNames : TypeFileOutput(n)
    \/ ClickConvertText
    \/ ClickConvertFile

UISpec == Init /\ [][UINext]_vars

-----------------------------------------------------------------------------
(* The two cache entries of one name *)

Returns(c) == call[c].pc # "idle" /\ call'[c].pc = "idle" /\ IsSuccess(call'[c].ret)

(* C16: <name>.pdf and <name>.midi in the cache come from the same         *)
(* conversion: when a call returns Success without MIDI (it is then the    *)
(* most recent successful call with its name), the cache holds no          *)
(* <name>.midi.                                                            *)
C16_NoMidiLeftOver ==
    [][\A c \in Calls :
          (Returns(c) /\ call'[c].ret.midi_data = None)
              => fs'[final_midi_path(call[c].output_name)] = Absent]_vars

(* C16 as the code has it: a call that returns Success with MIDI leaves    *)
(* both entries holding the output of its own run; <name>.midi is never    *)
(* removed, and is changed only by the MIDI copy of a call with that name  *)
(* - a call without MIDI leaves the entry of an earlier call in place.     *)
C16_Step ==
    \A n \in Names :
        /\ \A c \in Calls :
              (Returns(c) /\ call[c].output_name = n /\ call'[c].ret.midi_data # None) =>
                  /\ call'[c].ret.pdf_data = PdfOf(call[c].ly_content)
                  /\ call'[c].ret.midi_data = MidiOf(call[c].ly_content)
                  /\ fs'[final_pdf_path(n)] = call'[c].ret.pdf_data
                  /\ fs'[final_midi_path(n)] = call'[c].ret.midi_data
        /\ Exists(final_midi_path(n)) => fs'[final_midi_path(n)] # Absent
        /\ fs'[final_midi_path(n)] # fs[final_midi_path(n)] =>
              \E c \in Calls :
                  /\ call[c].output_name = n
                  /\ call[c].pc \in {"copy_midi", "copy_midi_data"}
                  /\ call'[c].pc \in {"copy_midi_data", "read_midi"}

C16_MidiOnlyFromMidiCopy == [][C16_Step]_vars

(* A call with MIDI, then a call with the same name and another source     *)
(* without MIDI, both successful: the cache pairs the second call's PDF    *)
(* with the first call's MIDI.                                             *)
C16_Witness ==
    \E c1, c2 \in Calls :
        /\ c1 # c2 /\ Quiescent
        /\ IsSuccess(call[c1].ret) /\ IsSuccess(call[c2].ret)
        /\ call[c1].output_name = call[c2].output_name
        /\ call[c1].ly_content # call[c2].ly_content
        /\ call[c1].ret.midi_data = MidiOf(call[c1].ly_content)
        /\ call[c2].ret.midi_data = None
        /\ fs[final_pdf_path(call[c2].output_name)] = PdfOf(call[c2].ly_content)
        /\ fs[final_midi_path(call[c2].output_name)] = MidiOf(call[c1].ly_content)

-----------------------------------------------------------------------------
(* Claims about the lookup *)

(* The install-location list of a platform, as the comments above the      *)
(* three lists name them: Windows, macOS, Linux.                           *)
PlatformList(h) ==
    CASE h.system = "Windows" -> windows_paths(h.environ)
      [] h.system = "Darwin" -> macos_paths(h.home)
      [] OTHER -> linux_paths

BareFailed(h) == h.bare \in {"exit1", "FileNotFoundError"}

(* C12: when `lilypond --version` exits with status 0, find_lilypond       *)
(* returns the bare name 'lilypond' and probes no install location.        *)
C12_BareCommandWins ==
    (loc.runs > 0 /\ loc.host.bare = "exit0")
        => (loc.lilypond_path = "lilypond" /\ loc.probed = <<>>)

(* The bare command works on a host that also has an executable at a       *)
(* listed install location.                                                *)
C12_Witness ==
    /\ loc.runs > 0
    /\ loc.host.bare = "exit0"
    /\ loc.lilypond_path = "lilypond"
    /\ \E path \in Range(common_paths(loc.host)) : access_X_OK(loc.host, path)

(* C13: when the bare command is missing or exits non-zero, find_lilypond  *)
(* consults the list of the current platform (on macOS the application     *)
(* bundle paths), in order, and returns the first entry that is an         *)
(* executable file, or None when there is none.                            *)
C13_FirstOfPlatformList ==
    (loc.runs > 0 /\ BareFailed(loc.host))
        => LET claimed == CheckEachPath(loc.host, PlatformList(loc.host)) IN
           /\ loc.lilypond_path = claimed.result
           /\ loc.probed = claimed.probed

(* C14: the lookup is resolved once per process: over all runs of the      *)
(* script the subprocess is started at most once, and every run uses the   *)
(* result of the first lookup.                                             *)
C14_ResolvedOnce ==
    /\ loc.spawns <= 1
    /\ loc.runs > 0 => loc.lilypond_path = loc.first

-----------------------------------------------------------------------------
(* Claims about the page *)

Called == ui.invoked # NotInvoked

(* C15: in every state of the page rendered with no executable located,    *)
(* both "Convert to PDF" buttons are disabled and the guidance is shown;   *)
(* convert_lilypond is only ever called with a non-empty executable path,  *)
(* and from the upload tab only with an uploaded file.                     *)
C15_DisabledWithoutExecutable ==
    /\ (ui.events > 0 /\ ~Truthy(ui.lilypond_path)) =>
           /\ ui.view.convert_text_disabled
           /\ ui.view.convert_file_disabled
           /\ ui.view.guidance
    /\ Called =>
           /\ Truthy(ui.invoked.lilypond_path)
           /\ ui.invoked.tab = "upload" => ui.invoked.uploaded_file # NoFile

(* "Convert to PDF" was clicked on a page that showed it enabled, with a   *)
(* file uploaded, and the run the click started found no executable: the   *)
(* page now has both buttons disabled and shows the guidance, and nothing  *)
(* was called.                                                             *)
C15_Witness ==
    /\ ui.clicked \in {"convert_text", "convert_file"}
    /\ ~Truthy(ui.lilypond_path)
    /\ ui.uploaded_file # NoFile
    /\ ui.view.convert_text_disabled /\ ui.view.convert_file_disabled /\ ui.view.guidance
    /\ ~Called

(* C17: the download section is shown only while the stored PDF is the     *)
(* conversion of the text the editor holds (st.session_state.ly_text), for *)
(* a PDF converted from the text tab.                                      *)
C17_DownloadMatchesEditor ==
    (ui.view.download /\ ui.pdf_generated /\ ui.pdf_from.tab = "text")
        => ui.pdf_from.ly_content = ui.ly_text

(* Characters with a meaning in a path or reserved by a file system. *)
Reserved == {"/", "\\", ":", "*", "?", "\"", "<", ">", "|"}
Sanitized(name) == name # <<>> /\ \A i \in 1..Len(name) : name[i] \notin Reserved

(* The components of a relative path, cut at the separators. *)
RECURSIVE Components(_)
Components(pieces) ==
    IF pieces = <<>>
    THEN <<"">>
    ELSE LET rest == Components(Tail(pieces)) IN
         IF Head(pieces) = "/"
         THEN <<"">> \o rest
         ELSE <<Head(pieces) \o Head(rest)>> \o Tail(rest)

(* os.path.normpath of a directory followed by further components *)
RECURSIVE normpath(_, _)
normpath(dir, comps) ==
    IF comps = <<>>
    THEN dir
    ELSE LET c == Head(comps) IN
         normpath(IF c \in {"", "."} THEN dir
                  ELSE IF c = ".." THEN SubSeq(dir, 1, Len(dir) - 1)
                  ELSE Append(dir, c),
                  Tail(comps))

(* cache_dir, in components *)
CacheParts == <<"tmp", "streamlit_lilypond_cache">>

(* os.path.join(cache_dir, file) names a file of the cache directory itself *)
DirectlyInCache(file) ==
    LET landed == normpath(CacheParts, Components(file)) IN
    /\ Len(landed) = Len(CacheParts) + 1
    /\ SubSeq(landed, 1, Len(CacheParts)) = CacheParts

(* C11: every output name convert_lilypond is called with, from either     *)
(* "Output Filename" box, is non-empty and free of path separators and     *)
(* reserved characters, and every file the call writes lies directly in    *)
(* the cache directory.                                                    *)
C11_OutputNameSanitized ==
    Called => /\ Sanitized(ui.invoked.output_name)
              /\ \A file \in ui.wrote : DirectlyInCache(file)

====
